---- MODULE Spec2Model ----
(***************************************************************************)
(* JsonCPP: lexer (Lexer.hpp), recursive-descent parser and tagged value   *)
(* model (JsonParser.hpp), compact serializer and mutation API.            *)
(*                                                                         *)
(* Text is a sequence of one-character strings.  Cursors are zero-based as *)
(* in the C++ code; sequence indices are one-based, so source[curser] of   *)
(* the code is source[curser + 1] here.                                    *)
(***************************************************************************)
EXTENDS Integers, Sequences, FiniteSets

(***************************************************************************)
(* Characters                                                              *)
(***************************************************************************)
NUL == "NUL"
QUOTE == "\""
BACKSLASH == "\\"
DecimalDigits == <<"0", "1", "2", "3", "4", "5", "6", "7", "8", "9">>

isdigit(c) == \E i \in 1..10 : DecimalDigits[i] = c

DigitValue(c) == (CHOOSE i \in 1..10 : DecimalDigits[i] = c) - 1

\* std::string::substr(pos, count) for 0 <= pos <= size and count >= 0
substr(s, pos, count) ==
    SubSeq(s, pos + 1, IF pos + count > Len(s) THEN Len(s) ELSE pos + count)

(***************************************************************************)
(* Tokens (Token.hpp, TokenType.hpp)                                       *)
(***************************************************************************)
TokenType == {"LBRACE", "RBRACE", "LBRACKET", "RBRACKET", "COMMA", "COLON",
              "STRING", "NUMBER", "TRUE_LITERAL", "FALSE_LITERAL",
              "NULL_LITERAL", "END_OF_FILE", "INVALID"}

\* literal_data: nullptr, or LiteralValue<double|std::string|bool>
NoLiteral == [kind |-> "nullptr", num |-> 0, str |-> <<>>, b |-> FALSE]
LiteralDouble(v) == [kind |-> "double", num |-> v, str |-> <<>>, b |-> FALSE]
LiteralString(s) == [kind |-> "string", num |-> 0, str |-> s, b |-> FALSE]
LiteralBool(v) == [kind |-> "bool", num |-> 0, str |-> <<>>, b |-> v]

Token(t, text, lit) == [tokenType |-> t, lexeme |-> text, literal_data |-> lit]

EMPTY_TOKEN == Token("INVALID", <<>>, NoLiteral)

(***************************************************************************)
(* atof, on the characters a NUMBER lexeme can hold.  A double is modelled *)
(* as an integer count of millionths (the six decimals std::to_string      *)
(* prints); digits beyond the sixth decimal are dropped.                   *)
(***************************************************************************)
RECURSIVE Pow10(_)
Pow10(n) == IF n <= 0 THEN 1 ELSE 10 * Pow10(n - 1)

Micro == Pow10(6)

\* index (one-based) of the first character at or after i that is no decimal digit
RECURSIVE DigitsEnd(_, _)
DigitsEnd(s, i) ==
    IF i <= Len(s) /\ isdigit(s[i]) THEN DigitsEnd(s, i + 1) ELSE i

\* value of the decimal digits s[i..j-1]
RECURSIVE DigitsValue(_, _, _)
DigitsValue(s, i, j) ==
    IF j <= i THEN 0 ELSE 10 * DigitsValue(s, i, j - 1) + DigitValue(s[j - 1])

\* the exponent part: e or E, an optional sign, digits
atof_exponent(s, neg, nodigits, mant, f1) ==
    LET hasE == f1 <= Len(s) /\ s[f1] \in {"e", "E"}
        esign == hasE /\ f1 + 1 <= Len(s) /\ s[f1 + 1] \in {"-", "+"}
        eneg == esign /\ s[f1 + 1] = "-"
        e0 == IF esign THEN f1 + 2 ELSE f1 + 1
        expo == IF hasE THEN DigitsValue(s, e0, DigitsEnd(s, e0)) ELSE 0
        mag == IF eneg THEN mant \div Pow10(expo) ELSE mant * Pow10(expo)
    IN  IF nodigits THEN 0 ELSE IF neg THEN 0 - mag ELSE mag

\* the digits s[f0..f1-1] after the decimal point
atof_fraction(s, neg, i0, i1, f0, f1) ==
    LET fracLen == IF f1 - f0 > 6 THEN 6 ELSE f1 - f0
    IN  atof_exponent(s, neg, (i1 = i0) /\ (f1 = f0),
                      DigitsValue(s, i0, i1) * Micro
                          + DigitsValue(s, f0, f0 + fracLen) * Pow10(6 - fracLen),
                      f1)

\* the digits s[i0..i1-1] before the decimal point
atof_integer(s, neg, i0, i1) ==
    IF i1 <= Len(s) /\ s[i1] = "."
    THEN atof_fraction(s, neg, i0, i1, i1 + 1, DigitsEnd(s, i1 + 1))
    ELSE atof_fraction(s, neg, i0, i1, i1, i1)

atof_sign(s, neg) ==
    atof_integer(s, neg, IF neg THEN 2 ELSE 1, DigitsEnd(s, IF neg THEN 2 ELSE 1))

atof(s) == atof_sign(s, Len(s) >= 1 /\ s[1] = "-")

(***************************************************************************)
(* JsonLexer (Lexer.hpp)                                                   *)
(***************************************************************************)
JsonLexer_Peek(source, curser) ==
    IF curser < Len(source) THEN source[curser + 1] ELSE NUL

JsonLexer_PeekPrev(source, curser) ==
    IF curser - 1 > 0 THEN source[curser] ELSE NUL

JsonLexer_PeekNext(source, curser) ==
    IF curser + 1 < Len(source) THEN source[curser + 2] ELSE NUL

\* source[curser++]: std::string yields '\0' at index size()
JsonLexer_GetNext(source, curser) ==
    IF curser < Len(source) THEN source[curser + 1] ELSE NUL

JsonLexer_isEnd(source, curser) == curser >= Len(source)

isDigit(c) == isdigit(c) \/ c = "-"

\* the token text is source.substr(curserStart, curser - curserStart)
AddToken(source, curserStart, curser, t, lit) ==
    Token(t, substr(source, curserStart, curser - curserStart), lit)

\* what a scanToken call leaves behind: a token, nothing (whitespace), or a throw
Scanned(tok, curser) == [kind |-> "token", curser |-> curser, token |-> tok]
Skipped(curser) == [kind |-> "skip", curser |-> curser, token |-> EMPTY_TOKEN]
Thrown(what, curser) == [kind |-> what, curser |-> curser, token |-> EMPTY_TOKEN]

\* "...[ " + GetRangeArroundCurrent(range) + " ]": substr throws std::out_of_range
\* when lower, converted to size_t, exceeds the size
GetRangeArroundCurrent(source, curser, range) ==
    LET lower == curser - range
    IN  IF lower < 0 \/ lower > Len(source) THEN "out_of_range" ELSE "LexError"

RECURSIVE SkipDigits(_, _)
SkipDigits(source, curser) ==
    IF isDigit(JsonLexer_Peek(source, curser))
    THEN SkipDigits(source, curser + 1)
    ELSE curser

\* tvalue = source.substr(curserStart, curser - curserStart); AddToken(NUMBER,
\* atof(tvalue))
ReadNumber_token(source, curserStart, curser) ==
    Scanned(AddToken(source, curserStart, curser, "NUMBER",
                     LiteralDouble(atof(substr(source, curserStart,
                                               curser - curserStart)))),
            curser)

\* if(Peek() == 'e' || Peek() == 'E') && isDigit(PeekNext()): GetNext(); then
\* the digit loop
ReadNumber_exponent(source, curserStart, curser) ==
    ReadNumber_token(source, curserStart,
        SkipDigits(source,
                   IF JsonLexer_Peek(source, curser) \in {"e", "E"}
                      /\ isDigit(JsonLexer_PeekNext(source, curser))
                   THEN curser + 1
                   ELSE curser))

\* if(Peek() == '.' && isDigit(PeekNext())): GetNext(); then the digit loop
ReadNumber_fraction(source, curserStart, curser) ==
    ReadNumber_exponent(source, curserStart,
        IF JsonLexer_Peek(source, curser) = "."
           /\ isDigit(JsonLexer_PeekNext(source, curser))
        THEN SkipDigits(source, curser + 1)
        ELSE curser)

ReadNumber(source, curserStart, curser) ==
    ReadNumber_fraction(source, curserStart, SkipDigits(source, curser))

\* the letters after the first one, each matched in either case
RECURSIVE ReadLetters(_, _, _, _, _, _)
ReadLetters(source, curserStart, curser, letters, t, lit) ==
    IF letters = <<>>
    THEN Scanned(AddToken(source, curserStart, curser, t, lit), curser)
    ELSE LET c == JsonLexer_GetNext(source, curser)
         IN  IF c \notin Head(letters)
             THEN Thrown(GetRangeArroundCurrent(source, curser + 1, 6), curser + 1)
             ELSE ReadLetters(source, curserStart, curser + 1, Tail(letters), t, lit)

ReadTrueLiteral(source, curserStart, curser) ==
    ReadLetters(source, curserStart, curser,
                <<{"r", "R"}, {"u", "U"}, {"e", "E"}>>,
                "TRUE_LITERAL", LiteralBool(TRUE))

ReadFalseLiteral(source, curserStart, curser) ==
    ReadLetters(source, curserStart, curser,
                <<{"a", "A"}, {"l", "L"}, {"s", "S"}, {"e", "E"}>>,
                "FALSE_LITERAL", LiteralBool(FALSE))

ReadNullLiteral(source, curserStart, curser) ==
    ReadLetters(source, curserStart, curser,
                <<{"u", "U"}, {"l", "L"}, {"l", "L"}>>,
                "NULL_LITERAL", NoLiteral)

RECURSIVE StringEnd(_, _)
StringEnd(source, curser) ==
    IF (JsonLexer_Peek(source, curser) # QUOTE
        \/ JsonLexer_PeekPrev(source, curser) = BACKSLASH)
       /\ ~JsonLexer_isEnd(source, curser)
    THEN StringEnd(source, curser + 1)
    ELSE curser

\* after the loop, curser c1 is at the closing quote or at the end
ReadString_close(source, curserStart, c1) ==
    LET c2 == c1 + 1
        value == substr(source, curserStart + 1, (c2 - 1) - (curserStart + 1))
    IN  IF JsonLexer_isEnd(source, c1)
        THEN Thrown(GetRangeArroundCurrent(source, c1, 5), c1)
        ELSE Scanned(AddToken(source, curserStart, c2, "STRING",
                              LiteralString(value)), c2)

ReadString(source, curserStart, curser) ==
    ReadString_close(source, curserStart, StringEnd(source, curser))

Punctuation(c) ==
    CASE c = "[" -> "LBRACKET"
      [] c = "]" -> "RBRACKET"
      [] c = "{" -> "LBRACE"
      [] c = "}" -> "RBRACE"
      [] c = "," -> "COMMA"
      [] c = ":" -> "COLON"

scanToken(source, curserStart) ==
    LET c == JsonLexer_GetNext(source, curserStart)
        curser == curserStart + 1
    IN  CASE c \in {"[", "]", "{", "}", ",", ":"} ->
               Scanned(AddToken(source, curserStart, curser, Punctuation(c),
                                NoLiteral), curser)
          [] c = QUOTE -> ReadString(source, curserStart, curser)
          [] c \in {"t", "T"} -> ReadTrueLiteral(source, curserStart, curser)
          [] c \in {"f", "F"} -> ReadFalseLiteral(source, curserStart, curser)
          [] c \in {"n", "N"} -> ReadNullLiteral(source, curserStart, curser)
          [] c \in {" ", "\r", "\t", "\n"} -> Skipped(curser)
          [] OTHER ->
               IF isDigit(c)
               THEN ReadNumber(source, curserStart, curser)
               ELSE Thrown(GetRangeArroundCurrent(source, curser, 5), curser)

\* scanTokens on a lexer whose members are (tokens, curser): the loop, then the
\* END_OF_FILE token.  A throw leaves the members as they were at the throw.
RECURSIVE scanTokens(_, _, _)
RECURSIVE scanTokens_next(_, _, _)
scanTokens(source, tokens, curser) ==
    IF JsonLexer_isEnd(source, curser)
    THEN [curser |-> curser,
          tokens |-> Append(tokens, Token("END_OF_FILE", <<>>, NoLiteral)),
          status |-> "ok"]
    ELSE scanTokens_next(source, tokens, scanToken(source, curser))

\* the loop goes on after scanToken left r
scanTokens_next(source, tokens, r) ==
    CASE r.kind = "token" -> scanTokens(source, Append(tokens, r.token), r.curser)
      [] r.kind = "skip" -> scanTokens(source, tokens, r.curser)
      [] OTHER -> [curser |-> r.curser, tokens |-> tokens, status |-> r.kind]

(***************************************************************************)
(* Element (JsonParser.hpp).  valueType is the tag; value names the        *)
(* payload the unique_ptr<BaseValue> holds ("nullptr" when it holds        *)
(* none); the payload's data is in the field of its kind.  A JObject is    *)
(* the sequence of its (key, element) entries in insertion order, keys     *)
(* unique; a JArray is the sequence of its elements.                       *)
(***************************************************************************)
ValueType == {"STRING_LITERAL", "NUMBER_LITERAL", "OBJECT", "ARRAY",
              "BOOL_LITERAL", "NULL_LITERAL", "INVALID"}

Element(t, payload, s, n, bv, o, a) ==
    [num |-> n, str |-> s, b |-> bv, value |-> payload,
     valueType |-> t, obj |-> o, arr |-> a]

\* Element(t, nullptr); Element() is ElementOf("NULL_LITERAL")
ElementOf(t) == Element(t, "nullptr", <<>>, 0, FALSE, <<>>, <<>>)

StringElement(s) == Element("STRING_LITERAL", "string", s, 0, FALSE, <<>>, <<>>)
\* a Number whose payload is Value<T>, T one of double, int, long, float
NumberElement(T, n) == Element("NUMBER_LITERAL", T, <<>>, n, FALSE, <<>>, <<>>)
BoolElement(v) == Element("BOOL_LITERAL", "bool", <<>>, 0, v, <<>>, <<>>)
ObjectElement(o) == Element("OBJECT", "JObject", <<>>, 0, FALSE, o, <<>>)
ArrayElement(a) == Element("ARRAY", "JArray", <<>>, 0, FALSE, <<>>, a)

Entry(k, e) == [key |-> k, element |-> e]

Keys(o) == {o[i].key : i \in 1..Len(o)}

HasKey(o, k) == \E i \in 1..Len(o) : o[i].key = k

\* the element a JObject maps k to (k present)
Lookup(o, k) == o[CHOOSE i \in 1..Len(o) : o[i].key = k].element

\* unordered_map::emplace: inserts only when the key is absent
emplace(o, k, e) == IF HasKey(o, k) THEN o ELSE Append(o, Entry(k, e))

(***************************************************************************)
(* JSONParser (JsonParser.hpp)                                             *)
(***************************************************************************)
JSONParser_Peek(tokens, curser) ==
    IF curser < Len(tokens) THEN tokens[curser + 1] ELSE EMPTY_TOKEN

JSONParser_isEnd(tokens, curser) == curser >= Len(tokens)

\* tokens[curser++] reads past the end of the vector when curser >= size:
\* undefined behaviour
InBounds(tokens, curser) == curser < Len(tokens)

Parsed(e, curser) == [curser |-> curser, status |-> "ok", element |-> e]
ParseThrow(curser) ==
    [curser |-> curser, status |-> "ParseError", element |-> ElementOf("INVALID")]
ParseUndefined(curser) ==
    [curser |-> curser, status |-> "UB", element |-> ElementOf("INVALID")]

IsLeafToken(t) ==
    t \in {"STRING", "NUMBER", "TRUE_LITERAL", "FALSE_LITERAL", "NULL_LITERAL"}

\* the Element the STRING, NUMBER, TRUE, FALSE and NULL cases build
LeafElement(token) ==
    CASE token.tokenType = "STRING" -> StringElement(token.literal_data.str)
      [] token.tokenType = "NUMBER" ->
           NumberElement("double", token.literal_data.num)
      [] token.tokenType = "TRUE_LITERAL" -> BoolElement(TRUE)
      [] token.tokenType = "FALSE_LITERAL" -> BoolElement(FALSE)
      [] token.tokenType = "NULL_LITERAL" -> ElementOf("NULL_LITERAL")

RECURSIVE ObjectLoop(_, _, _)
RECURSIVE ArrayLoop(_, _, _)

BeginParseObject(tokens, curser) == ObjectLoop(tokens, curser, <<>>)

BeginParseArray(tokens, curser) == ArrayLoop(tokens, curser, <<>>)

\* the switch on Peek() that ends an object entry
ObjectSeparator(tokens, curser, container) ==
    LET t == JSONParser_Peek(tokens, curser).tokenType
    IN  CASE t = "COMMA" -> ObjectLoop(tokens, curser + 1, container)
          [] t = "RBRACE" -> Parsed(ObjectElement(container), curser + 1)
          [] OTHER -> ObjectLoop(tokens, curser, container)

ObjectLoop(tokens, curser, container) ==
    IF JSONParser_isEnd(tokens, curser)
    THEN Parsed(ObjectElement(container), curser)
    ELSE LET key == tokens[curser + 1]
             c1 == curser + 1
             c3 == curser + 3
         IN  IF key.tokenType = "RBRACE"
             THEN IF Len(container) # 0
                  THEN ParseThrow(c1)
                  ELSE Parsed(ObjectElement(container), c1)
             ELSE IF ~InBounds(tokens, c1 + 1)
             THEN ParseUndefined(c3)
             ELSE LET delimiter == tokens[c1 + 1]
                      value == tokens[c1 + 2]
                      keyStr == key.literal_data.str
                  IN  CASE key.tokenType # "STRING" -> ParseThrow(c3)
                        [] delimiter.tokenType # "COLON" -> ParseThrow(c3)
                        [] IsLeafToken(value.tokenType) ->
                             ObjectSeparator(tokens, c3,
                                 emplace(container, keyStr, LeafElement(value)))
                        [] value.tokenType \in {"LBRACE", "LBRACKET"} ->
                             LET sub == IF value.tokenType = "LBRACE"
                                        THEN BeginParseObject(tokens, c3)
                                        ELSE BeginParseArray(tokens, c3)
                             IN  IF sub.status # "ok"
                                 THEN sub
                                 ELSE ObjectSeparator(tokens, sub.curser,
                                          emplace(container, keyStr, sub.element))
                        [] OTHER -> ParseThrow(c3)

\* the switch on Peek() that ends an array value
ArraySeparator(tokens, curser, container) ==
    LET t == JSONParser_Peek(tokens, curser).tokenType
    IN  CASE t = "COMMA" -> ArrayLoop(tokens, curser + 1, container)
          [] t = "RBRACKET" -> Parsed(ArrayElement(container), curser + 1)
          [] OTHER -> ArrayLoop(tokens, curser, container)

ArrayLoop(tokens, curser, container) ==
    IF JSONParser_isEnd(tokens, curser)
    THEN Parsed(ArrayElement(container), curser)
    ELSE LET value == tokens[curser + 1]
             c1 == curser + 1
         IN  CASE IsLeafToken(value.tokenType) ->
                    ArraySeparator(tokens, c1,
                                   Append(container, LeafElement(value)))
               [] value.tokenType \in {"LBRACE", "LBRACKET"} ->
                    LET sub == IF value.tokenType = "LBRACE"
                               THEN BeginParseObject(tokens, c1)
                               ELSE BeginParseArray(tokens, c1)
                    IN  IF sub.status # "ok"
                        THEN sub
                        ELSE ArraySeparator(tokens, sub.curser,
                                            Append(container, sub.element))
               [] value.tokenType = "RBRACKET" ->
                    Parsed(ArrayElement(container), c1)
               [] OTHER -> ParseThrow(c1)

\* a _parse that also takes a scalar as the root of a document
_parse_scalar_root(tokens) ==
    LET t == JSONParser_Peek(tokens, 0).tokenType
    IN  CASE t = "LBRACE" -> BeginParseObject(tokens, 1)
          [] t = "LBRACKET" -> BeginParseArray(tokens, 1)
          [] IsLeafToken(t) -> Parsed(LeafElement(JSONParser_Peek(tokens, 0)), 1)
          [] OTHER -> ParseThrow(0)

\* _parse, after tokens = lexer.scanTokens(): curser = 0, then the root container
_parse(tokens) ==
    LET t == JSONParser_Peek(tokens, 0).tokenType
    IN  CASE t = "LBRACE" -> BeginParseObject(tokens, 1)
          [] t = "LBRACKET" -> BeginParseArray(tokens, 1)
          [] OTHER -> ParseThrow(0)

(***************************************************************************)
(* Serializer (JsonParser.hpp): Element::ToString and the                  *)
(* Value<T>::GetValueAsString specializations                              *)
(***************************************************************************)
RECURSIVE NatDigits(_)
NatDigits(n) ==
    IF n < 10
    THEN <<DecimalDigits[n + 1]>>
    ELSE Append(NatDigits(n \div 10), DecimalDigits[(n % 10) + 1])

\* the last w decimal digits of n, zero-padded
RECURSIVE PadDigits(_, _)
PadDigits(n, w) ==
    IF w = 0
    THEN <<>>
    ELSE Append(PadDigits(n \div 10, w - 1), DecimalDigits[(n % 10) + 1])

\* std::to_string(int), std::to_string(long)
to_string_int(n) ==
    IF n < 0 THEN <<"-">> \o NatDigits(0 - n) ELSE NatDigits(n)

\* std::to_string(double), std::to_string(float): "%f", six decimals
to_string_double(v) ==
    LET a == IF v < 0 THEN 0 - v ELSE v
    IN  (IF v < 0 THEN <<"-">> ELSE <<>>)
        \o NatDigits(a \div Micro) \o <<".">> \o PadDigits(a % Micro, 6)

\* the order a range-for visits an unordered_map in is unspecified: the entries
\* in insertion order, or the latest insertion first
IterationOrders == {"insertion", "reverse"}

RECURSIVE Reverse(_)
Reverse(s) == IF s = <<>> THEN <<>> ELSE Append(Reverse(Tail(s)), Head(s))

Iterate(o, order) == IF order = "reverse" THEN Reverse(o) ELSE o

RECURSIVE ToString(_, _)
RECURSIVE ArrayAsString(_, _, _)
RECURSIVE ObjectAsString(_, _, _)

\* the loop of Value<JArray>::GetValueAsString from element count + 1 on
ArrayAsString(value, count, order) ==
    IF count >= Len(value)
    THEN <<>>
    ELSE ToString(value[count + 1], order)
         \o (IF count + 1 < Len(value) THEN <<",", " ">> ELSE <<" ", "]">>)
         \o ArrayAsString(value, count + 1, order)

\* the loop of Value<JObject>::GetValueAsString over the entries as iterated
ObjectAsString(value, count, order) ==
    IF count >= Len(value)
    THEN <<>>
    ELSE <<QUOTE>> \o value[count + 1].key \o <<QUOTE, ":", " ">>
         \o ToString(value[count + 1].element, order)
         \o (IF count + 1 < Len(value) THEN <<",", " ">> ELSE <<" ", "}">>)
         \o ObjectAsString(value, count + 1, order)

GetValueAsString(e, order) ==
    CASE e.value = "string" -> <<QUOTE>> \o e.str \o <<QUOTE>>
      [] e.value \in {"double", "float"} -> to_string_double(e.num)
      [] e.value \in {"int", "long"} -> to_string_int(e.num)
      [] e.value = "bool" ->
           IF e.b THEN <<"t", "r", "u", "e">> ELSE <<"f", "a", "l", "s", "e">>
      [] e.value = "JArray" -> <<"[", " ">> \o ArrayAsString(e.arr, 0, order)
      [] e.value = "JObject" ->
           <<"{", " ">> \o ObjectAsString(Iterate(e.obj, order), 0, order)
      [] OTHER -> <<>>

ToString(e, order) ==
    CASE e.valueType = "NULL_LITERAL" -> <<"n", "u", "l", "l">>
      [] e.valueType = "INVALID" -> <<>>
      [] e.value = "nullptr" -> <<>>
      [] OTHER -> GetValueAsString(e, order)

(***************************************************************************)
(* Indented serializer (JsonParser.hpp): Element::ToString(int),           *)
(* Element::GetStringFormated and the Value<T>::ToStringFormater           *)
(* specializations                                                         *)
(***************************************************************************)
\* std::string(indent, ' ')
GetIndents(indent) == [i \in 1..indent |-> " "]

RECURSIVE GetStringFormated(_, _, _, _)
RECURSIVE ArrayFormated(_, _, _, _, _)
RECURSIVE ObjectFormated(_, _, _, _, _)

\* the loop of Value<JArray>::ToStringFormater from element count + 1 on
ArrayFormated(value, count, indent, offset, order) ==
    IF count >= Len(value)
    THEN <<>>
    ELSE GetIndents(indent + offset)
         \o GetStringFormated(value[count + 1], indent + offset, offset, order)
         \o (IF count + 1 < Len(value) THEN <<",", "\n">> ELSE <<"\n">>)
         \o ArrayFormated(value, count + 1, indent, offset, order)

\* the loop of Value<JObject>::ToStringFormater over the entries as iterated
ObjectFormated(value, count, indent, offset, order) ==
    IF count >= Len(value)
    THEN <<>>
    ELSE GetIndents(indent + offset)
         \o <<QUOTE>> \o value[count + 1].key \o <<QUOTE, ":", " ">>
         \o GetStringFormated(value[count + 1].element, indent + offset, offset,
                              order)
         \o (IF count + 1 < Len(value) THEN <<",", "\n">> ELSE <<"\n">>)
         \o ObjectFormated(value, count + 1, indent, offset, order)

ToStringFormater(e, indent, offset, order) ==
    CASE e.value = "string" -> <<QUOTE>> \o e.str \o <<QUOTE>>
      [] e.value \in {"double", "float"} -> to_string_double(e.num)
      [] e.value \in {"int", "long"} -> to_string_int(e.num)
      [] e.value = "bool" ->
           IF e.b THEN <<"t", "r", "u", "e">> ELSE <<"f", "a", "l", "s", "e">>
      [] e.value = "JArray" ->
           IF Len(e.arr) = 0
           THEN <<"[", "]">>
           ELSE <<"[", "\n">> \o ArrayFormated(e.arr, 0, indent, offset, order)
                \o GetIndents(indent) \o <<"]">>
      [] e.value = "JObject" ->
           IF Len(e.obj) = 0
           THEN <<"{", "}">>
           ELSE <<"{", "\n">>
                \o ObjectFormated(Iterate(e.obj, order), 0, indent, offset, order)
                \o GetIndents(indent) \o <<"}">>
      [] OTHER -> <<>>

GetStringFormated(e, indent, offset, order) ==
    CASE e.valueType = "NULL_LITERAL" -> <<"n", "u", "l", "l">>
      [] e.valueType = "INVALID" -> <<>>
      [] e.value = "nullptr" -> <<>>
      [] OTHER -> ToStringFormater(e, indent, offset, order)

\* ToString(int indent)
ToString_indent(e, indent, order) == GetStringFormated(e, 0, indent, order)

(***************************************************************************)
(* JSONParser::Parse on a parser instance whose lexer holds (tokens,       *)
(* curser): ReadSourceFile, scanTokens, _parse.  A fresh instance has      *)
(* tokens = <<>> and curser = 0.                                           *)
(***************************************************************************)
\* what Parse leaves: r is what _parse returned or threw
Parse_result(lexed, r) ==
    [curser |-> r.curser, tokens |-> lexed.tokens,
     status |-> r.status, element |-> r.element, lexer |-> lexed]

\* _parse once scanTokens has left lexed; a lexer throw ends the call
Parse_lexed(lexed) ==
    IF lexed.status # "ok"
    THEN [curser |-> 0, tokens |-> lexed.tokens,
          status |-> lexed.status, element |-> ElementOf("INVALID"), lexer |-> lexed]
    ELSE Parse_result(lexed, _parse(lexed.tokens))

JSONParser_Parse(text, lexTokens, lexCurser) ==
    Parse_lexed(scanTokens(text, lexTokens, lexCurser))

(***************************************************************************)
(* Element: typed accessors and the mutation / builder API                 *)
(* (JsonParser.hpp).  An operation on Element e yields the Element it      *)
(* leaves, what it threw ("none" when it returned) and what it returned.   *)
(***************************************************************************)
Types == {"double", "int", "long", "float", "string", "bool", "nullptr_t",
          "JObject", "JArray"}

ValueType_of(T) ==
    CASE T \in {"double", "int", "long", "float"} -> "NUMBER_LITERAL"
      [] T = "string" -> "STRING_LITERAL"
      [] T = "bool" -> "BOOL_LITERAL"
      [] T = "nullptr_t" -> "NULL_LITERAL"
      [] T = "JObject" -> "OBJECT"
      [] T = "JArray" -> "ARRAY"

\* what a call leaves behind: the Element afterwards, the exception thrown, the
\* value returned, and what it stored in its out parameter
Returned(e, ret) == [element |-> e, ret |-> ret, threw |-> "none", out |-> "none"]
Threw(e, what) == [element |-> e, ret |-> "none", threw |-> what, out |-> "none"]
Stored(e, ret, out) == [element |-> e, ret |-> ret, threw |-> "none", out |-> out]

\* a host value handed to From, Add or operator<<: its type and its data
HostValue(T, n, s, bv) == [num |-> n, str |-> s, b |-> bv, type |-> T]

\* Element::From<V>(value): the tag of V, the payload a Value<V>
From(v) ==
    Element(ValueType_of(v.type), v.type, v.str, v.num, v.b, <<>>, <<>>)

\* Element::From<V>(): V value{}
FromDefault(V) == From(HostValue(V, 0, <<>>, FALSE))

\* GetValueAs<T>: the tag check, then the dynamic_cast to Value<T>
GetValueAs(e, T) ==
    IF e.valueType # ValueType_of(T) THEN Threw(e, "TypeMismatch")
    ELSE IF e.value # T THEN Threw(e, "WrongType")
    ELSE Returned(e, "payload")

\* TryGetValueAs<T>(in): in = nullptr first, &val->value on success
TryGetValueAs(e, T) ==
    IF e.valueType # ValueType_of(T) THEN Stored(e, "false", "nullptr")
    ELSE IF e.value # T THEN Stored(e, "false", "nullptr")
    ELSE Stored(e, "true", "payload")

\* operator>>(T& result): result is assigned after GetValueAs<T>() returned
operator_shr(e, T) ==
    IF e.valueType # ValueType_of(T) THEN Stored(e, "false", "unmodified")
    ELSE IF GetValueAs(e, T).threw # "none" THEN GetValueAs(e, T)
    ELSE Stored(e, "true", "payload")

\* JObject::operator[](key) = element: insert or overwrite
Assign(o, k, e) ==
    IF HasKey(o, k)
    THEN [i \in 1..Len(o) |-> IF o[i].key = k THEN Entry(k, e) ELSE o[i]]
    ELSE Append(o, Entry(k, e))

\* a lookup that creates nothing
operator_index_key_find(e, key) ==
    IF e.valueType # "OBJECT" THEN Threw(e, "TypeError")
    ELSE Returned(e, "reference")

\* operator[](const std::string&): a missing key is created holding Element()
operator_index_key(e, key) ==
    IF e.valueType # "OBJECT" THEN Threw(e, "TypeError")
    ELSE IF GetValueAs(e, "JObject").threw # "none" THEN GetValueAs(e, "JObject")
    ELSE IF HasKey(e.obj, key) THEN Returned(e, "reference")
    ELSE Returned([e EXCEPT !.obj = Append(@, Entry(key, ElementOf("NULL_LITERAL")))],
                  "reference")

\* operator[](size_t): std::vector::operator[] checks no bounds; at >= size() is
\* undefined behaviour
operator_index(e, at) ==
    IF e.valueType # "ARRAY" THEN Threw(e, "TypeError")
    ELSE IF GetValueAs(e, "JArray").threw # "none" THEN GetValueAs(e, "JArray")
    ELSE IF at >= Len(e.arr) THEN Threw(e, "UB")
    ELSE Returned(e, "reference")

\* an Add(key, value) that keeps the entry a key already has
Add_key_emplace(e, key, v) ==
    IF e.valueType # "OBJECT" THEN Returned(e, "false")
    ELSE Returned([e EXCEPT !.obj = emplace(@, key, From(v))], "true")

\* Add(key, value)
Add_key(e, key, v) ==
    IF e.valueType # "OBJECT" THEN Returned(e, "false")
    ELSE IF GetValueAs(e, "JObject").threw # "none" THEN GetValueAs(e, "JObject")
    ELSE Returned([e EXCEPT !.obj = Assign(@, key, From(v))], "true")

\* Add(value)
Add(e, v) ==
    IF e.valueType # "ARRAY" THEN Returned(e, "false")
    ELSE IF GetValueAs(e, "JArray").threw # "none" THEN GetValueAs(e, "JArray")
    ELSE Returned([e EXCEPT !.arr = Append(@, From(v))], "true")

\* an operator<<(T args) that appends to a Null as if it were an empty Array
operator_shl_promote(e, v) ==
    CASE e.valueType = "ARRAY" ->
           Returned([e EXCEPT !.arr = Append(@, From(v))], "reference")
      [] e.valueType = "NULL_LITERAL" ->
           Returned(ArrayElement(<<From(v)>>), "reference")
      [] OTHER -> Returned(e, "reference")

\* operator<<(T args)
operator_shl(e, v) ==
    CASE e.valueType = "ARRAY" ->
           IF GetValueAs(e, "JArray").threw # "none" THEN GetValueAs(e, "JArray")
           ELSE Returned([e EXCEPT !.arr = Append(@, From(v))], "reference")
      [] e.valueType = "NULL_LITERAL" -> Returned(From(v), "reference")
      [] OTHER -> Returned(e, "reference")

\* Remove(const std::string&): the tag test has no effect ("false;" is a statement)
Remove_key(e, key) ==
    IF GetValueAs(e, "JObject").threw # "none" THEN GetValueAs(e, "JObject")
    ELSE Returned([e EXCEPT !.obj = SelectSeq(@, LAMBDA x : x.key # key)],
                  IF HasKey(e.obj, key) THEN "true" ELSE "false")

\* a Remove(size_t) that drops the last element whatever the index
Remove_at_back(e, at) ==
    IF GetValueAs(e, "JArray").threw # "none" THEN GetValueAs(e, "JArray")
    ELSE IF at >= Len(e.arr) THEN Threw(e, "UB")
    ELSE Returned([e EXCEPT !.arr = SubSeq(@, 1, Len(@) - 1)], "true")

\* Remove(size_t): the tag test has no effect; erase(begin() + at) with
\* at >= size() is undefined behaviour
Remove_at(e, at) ==
    IF GetValueAs(e, "JArray").threw # "none" THEN GetValueAs(e, "JArray")
    ELSE IF at >= Len(e.arr) THEN Threw(e, "UB")
    ELSE Returned([e EXCEPT !.arr = SubSeq(@, 1, at) \o SubSeq(@, at + 2, Len(@))],
                  "true")

\* a Remove() that changes the tag and the payload kind and keeps the members
Remove_keep(e) ==
    Returned([e EXCEPT !.value = "nullptr_t", !.valueType = "NULL_LITERAL"], "true")

\* Remove(): value = Value<nullptr_t>, valueType = NULL_LITERAL
Remove(e) ==
    Returned(Element("NULL_LITERAL", "nullptr_t", <<>>, 0, FALSE, <<>>, <<>>),
             "true")

(***************************************************************************)
(* Jsonify: a host struct that overrides ToJsonObject, ToJsonArray, both   *)
(* or neither (Main.cpp: OnlyToObject, OnlyToArray, JustSomeStruct).  The  *)
(* base methods clear the Obj / Arr flag of the struct.                    *)
(***************************************************************************)
JsonifyKinds == {"OnlyToObject", "OnlyToArray", "JustSomeStruct", "Jsonify"}

OverridesObject(j) == j \in {"OnlyToObject", "JustSomeStruct"}
OverridesArray(j) == j \in {"OnlyToArray", "JustSomeStruct"}

HostInt == HostValue("int", 1, <<>>, FALSE)

\* object["a"] << a;
ToJsonObject(j, obj) ==
    IF OverridesObject(j)
    THEN [obj EXCEPT !.obj = Assign(operator_index_key(obj, <<"a">>).element.obj,
                                    <<"a">>,
                                    operator_shl(ElementOf("NULL_LITERAL"),
                                                 HostInt).element)]
    ELSE obj

\* array << a;
ToJsonArray(j, arr) ==
    IF OverridesArray(j) THEN operator_shl(arr, HostInt).element ELSE arr

\* an operator=(Jsonify&) that lets a value without either method through
operator_assign_nothrow(e, j) ==
    LET obj == ToJsonObject(j, FromDefault("JObject"))
        arr == ToJsonArray(j, FromDefault("JArray"))
        e1 == IF OverridesObject(j) THEN obj ELSE e
        e2 == IF OverridesArray(j) THEN arr ELSE e1
    IN  Returned(e2, "reference")

\* operator=(Jsonify&): value.Obj / value.Arr hold after the two calls exactly
\* when the struct overrides the method
operator_assign(e, j) ==
    LET obj == ToJsonObject(j, FromDefault("JObject"))
        arr == ToJsonArray(j, FromDefault("JArray"))
        Obj == OverridesObject(j)
        Arr == OverridesArray(j)
        e1 == IF Obj THEN obj ELSE e
        e2 == IF Arr THEN arr ELSE e1
    IN  IF ~Arr /\ ~Obj THEN Threw(e, "UsageError") ELSE Returned(e2, "reference")

\* AddObject(key, value, skipJsonifyObj)
AddObject_key(e, key, j, skipJsonifyObj) ==
    IF e.valueType # "OBJECT" THEN Returned(e, "false")
    ELSE IF ~skipJsonifyObj /\ OverridesObject(j)
    THEN Returned([e EXCEPT !.obj =
                      Assign(@, key, ToJsonObject(j, FromDefault("JObject")))],
                  "true")
    ELSE IF OverridesArray(j)
    THEN Returned([e EXCEPT !.obj =
                      Assign(@, key, ToJsonArray(j, FromDefault("JArray")))],
                  "true")
    ELSE Returned(e, "false")

\* AddObject(value)
AddObject(e, j) ==
    IF e.valueType # "ARRAY" THEN Returned(e, "false")
    ELSE IF OverridesObject(j)
    THEN Returned([e EXCEPT !.arr =
                      Append(@, ToJsonObject(j, FromDefault("JObject")))], "true")
    ELSE IF OverridesArray(j)
    THEN Returned([e EXCEPT !.arr =
                      Append(@, ToJsonArray(j, FromDefault("JArray")))], "true")
    ELSE Returned(e, "false")

(***************************************************************************)
(* Input texts.  A document is a well-formed JSON container given as the   *)
(* sequence of its lexemes; a source text is a document, or a document     *)
(* with one edit (cut short, one lexeme dropped, one lexeme inserted),     *)
(* its lexemes joined by single spaces, or a scalar on its own.            *)
(***************************************************************************)
MaxNodes == 3

ScalarLexemes == {<<"1">>, <<QUOTE, "b", QUOTE>>, <<"n", "u", "l", "l">>}
KeyLexemes == {<<QUOTE, "a", QUOTE>>, <<QUOTE, "b", QUOTE>>}
StrayLexemes == {<<",">>, <<"]">>, <<"}">>, <<"1">>}

LBraceLexeme == <<"{">>
RBraceLexeme == <<"}">>
LBracketLexeme == <<"[">>
RBracketLexeme == <<"]">>
CommaLexeme == <<",">>
ColonLexeme == <<":">>

RECURSIVE ValueDocs(_)
RECURSIVE ArrayItems(_)
RECURSIVE ObjectEntries(_)

\* the values of at most n nodes
ValueDocs(n) ==
    IF n <= 0 THEN {}
    ELSE {<<s>> : s \in ScalarLexemes}
         \cup {<<LBracketLexeme, RBracketLexeme>>, <<LBraceLexeme, RBraceLexeme>>}
         \cup {<<LBracketLexeme>> \o items \o <<RBracketLexeme>> :
                  items \in ArrayItems(n - 1)}
         \cup {<<LBraceLexeme>> \o entries \o <<RBraceLexeme>> :
                  entries \in ObjectEntries(n - 1)}

\* the non-empty comma-separated value lists of at most n nodes
ArrayItems(n) ==
    ValueDocs(n)
    \cup UNION {{v \o <<CommaLexeme>> \o rest :
                    v \in ValueDocs(k), rest \in ArrayItems(n - k)} : k \in 1..(n - 1)}

\* the non-empty comma-separated key : value lists of at most n nodes
ObjectEntries(n) ==
    LET One(m) == {<<key, ColonLexeme>> \o v : key \in KeyLexemes, v \in ValueDocs(m)}
    IN  One(n)
        \cup UNION {{e \o <<CommaLexeme>> \o rest :
                        e \in One(k), rest \in ObjectEntries(n - k)} : k \in 1..(n - 1)}

Documents(n) ==
    {d \in ValueDocs(n) : Head(d) \in {LBraceLexeme, LBracketLexeme}}

Cuts(d) == {SubSeq(d, 1, i) : i \in 0..Len(d)}

Drops(d) == {SubSeq(d, 1, i - 1) \o SubSeq(d, i + 1, Len(d)) : i \in 1..Len(d)}

Inserts(d) ==
    {SubSeq(d, 1, i) \o <<p>> \o SubSeq(d, i + 1, Len(d)) :
        i \in 0..Len(d), p \in StrayLexemes}

RECURSIVE Join(_)
Join(lexemes) ==
    IF lexemes = <<>> THEN <<>>
    ELSE IF Len(lexemes) = 1 THEN Head(lexemes)
    ELSE Head(lexemes) \o <<" ">> \o Join(Tail(lexemes))

\* the texts a document d gives rise to
Sources(d) == {Join(x) : x \in Cuts(d) \cup Drops(d) \cup Inserts(d)}

\* the texts that hold one scalar and no container
BareScalars == ScalarLexemes \cup {<<"t", "r", "u", "e">>}

(***************************************************************************)
(* State                                                                   *)
(***************************************************************************)
VARIABLES
    source,     \* JsonLexer::source, the text the parser instance reads
    lexer,      \* JsonLexer::tokens and JsonLexer::curser
    tokens,     \* JSONParser::tokens
    curser,     \* JSONParser::curser
    element,    \* the Element the caller holds
    pc,         \* where the caller is: start, parsed, failed, printed,
                \* formatted, reparsed
    error,      \* what the last Parse call threw, "none" when it returned
    text,       \* what ToString returned
    copy,       \* what parsing text on a fresh parser gave
    last        \* the last Element operation and its outcome

vars == <<source, lexer, tokens, curser, element, pc, error, text, copy, last>>

NoCopy == [status |-> "none", element |-> ElementOf("INVALID")]

\* the Element a call is made on: the held Element, or a reference obtained
\* from it with operator[]
RootTarget == [kind |-> "root", key |-> <<>>, at |-> 0]
MemberTarget(k) == [kind |-> "member", key |-> k, at |-> 0]
ItemTarget(i) == [kind |-> "item", key |-> <<>>, at |-> i]

NoOperation ==
    [key |-> <<>>, ret |-> "none", threw |-> "none", out |-> "none", type |-> "none",
     at |-> 0, op |-> "none", target |-> RootTarget, len |-> 0]

\* reading past the end of the token vector is undefined behaviour: the build
\* reads whatever follows the buffer, and either the type tests that follow
\* throw or copying the garbage Token takes the process down
ParseOutcomes(status) ==
    CASE status = "ok" -> {"none"}
      [] status = "UB" -> {"ParseError", "crash"}
      [] OTHER -> {status}

Init ==
    /\ source = <<>>
    /\ lexer = [curser |-> 0, tokens |-> <<>>]
    /\ tokens = <<>>
    /\ curser = 0
    /\ element = ElementOf("NULL_LITERAL")
    /\ pc = "start"
    /\ error = "none"
    /\ text = <<>>
    /\ copy = NoCopy
    /\ last = NoOperation

\* JSON::Element element = parser.Parse(): ReadSourceFile loads the text of the
\* file, _parse scans and parses it
Parse ==
    /\ pc = "start"
    /\ \E d \in Documents(MaxNodes) :
          \E file \in Sources(d) \cup BareScalars :
             \E r \in {JSONParser_Parse(file, lexer.tokens, lexer.curser)} :
                /\ source' = file
                /\ lexer' = [curser |-> r.lexer.curser, tokens |-> r.lexer.tokens]
                /\ tokens' = (IF r.lexer.status = "ok" THEN r.tokens ELSE tokens)
                /\ curser' = r.curser
                /\ \E o \in ParseOutcomes(r.status) : error' = o
                /\ element' = (IF r.status = "ok" THEN r.element ELSE element)
                /\ pc' = (IF r.status = "ok" THEN "parsed" ELSE "failed")
    /\ UNCHANGED <<text, copy, last>>

\* element.ToString()
Serialize ==
    /\ pc = "parsed"
    /\ \E order \in IterationOrders : text' = ToString(element, order)
    /\ pc' = "printed"
    /\ UNCHANGED <<source, lexer, tokens, curser, element, error, copy, last>>

\* JSONParser{text}.Parse() on a parser of its own
ParseBack ==
    /\ pc = "printed"
    /\ \E r \in {JSONParser_Parse(text, <<>>, 0)} :
           \E o \in ParseOutcomes(r.status) :
               copy' = [status |-> (IF o = "none" THEN "ok" ELSE o),
                        element |-> r.element]
    /\ pc' = "reparsed"
    /\ UNCHANGED <<source, lexer, tokens, curser, element, error, text, last>>

\* the indent widths the caller passes to ToString(int)
MaxIndent == 2

\* element.ToString(indent)
SerializeIndented ==
    /\ pc = "parsed"
    /\ \E indent \in 1..MaxIndent, order \in IterationOrders :
          /\ text' = ToString_indent(element, indent, order)
          /\ last' = [key |-> <<>>, ret |-> "none", threw |-> "none",
                      out |-> "none", type |-> "none", at |-> indent,
                      op |-> "ToString(indent)", target |-> RootTarget,
                      len |-> Len(element.obj) + Len(element.arr)]
    /\ pc' = "formatted"
    /\ UNCHANGED <<source, lexer, tokens, curser, element, error, copy>>

Next == Parse \/ Serialize \/ SerializeIndented \/ ParseBack

Spec == Init /\ [][Next]_vars

(***************************************************************************)
(* Properties of the parser and the compact serializer, under Spec         *)
(***************************************************************************)
\* same tags, same key sets, same values
RECURSIVE SameTree(_, _)
SameTree(x, y) ==
    /\ x.valueType = y.valueType
    /\ x.str = y.str
    /\ x.num = y.num
    /\ x.b = y.b
    /\ Keys(x.obj) = Keys(y.obj)
    /\ \A k \in Keys(x.obj) : SameTree(Lookup(x.obj, k), Lookup(y.obj, k))
    /\ Len(x.arr) = Len(y.arr)
    /\ \A i \in 1..Len(x.arr) : SameTree(x.arr[i], y.arr[i])

\* the source is a well-formed document as written
ValidSource == \E d \in Documents(MaxNodes) : source = Join(d)

\* C1: the tree parsed from valid input, serialized by ToString() and parsed
\* again, comes back with the same tags, key sets and values
C1_RoundTrip ==
    (pc = "reparsed" /\ ValidSource) =>
        (copy.status = "ok" /\ SameTree(copy.element, element))

\* the token buffer is { key : leaf , key : leaf ... } END_OF_FILE
FlatObject(toks) ==
    /\ Len(toks) >= 6
    /\ (Len(toks) - 2) % 4 = 0
    /\ toks[1].tokenType = "LBRACE"
    /\ toks[Len(toks)].tokenType = "END_OF_FILE"
    /\ \A j \in 1..((Len(toks) - 2) \div 4) :
          /\ toks[4 * j - 2].tokenType = "STRING"
          /\ toks[4 * j - 1].tokenType = "COLON"
          /\ IsLeafToken(toks[4 * j].tokenType)
          /\ toks[4 * j + 1].tokenType =
                (IF 4 * j + 2 = Len(toks) THEN "RBRACE" ELSE "COMMA")

\* C2: a key written more than once in an object is parsed to one entry that
\* holds the value of its last occurrence
C2_LastDuplicateWins ==
    (pc # "start" /\ FlatObject(tokens)) =>
        /\ error = "none"
        /\ element.valueType = "OBJECT"
        /\ \A j \in 1..((Len(tokens) - 2) \div 4) :
              LET k == tokens[4 * j - 2].literal_data.str
                  later == \E m \in (j + 1)..((Len(tokens) - 2) \div 4) :
                              tokens[4 * m - 2].literal_data.str = k
              IN  /\ Cardinality({i \in 1..Len(element.obj) :
                                     element.obj[i].key = k}) = 1
                  /\ ~later => Lookup(element.obj, k) = LeafElement(tokens[4 * j])

Count(toks, types) == Cardinality({i \in 1..Len(toks) : toks[i].tokenType \in types})

\* containers opened and not yet closed after the first i tokens
Depth(toks, i) ==
    Count(SubSeq(toks, 1, i), {"LBRACE", "LBRACKET"})
        - Count(SubSeq(toks, 1, i), {"RBRACE", "RBRACKET"})

\* end of input comes before every opened container is closed
Unclosed(toks) == Depth(toks, Len(toks)) > 0

ValueStart == {"STRING", "NUMBER", "TRUE_LITERAL", "FALSE_LITERAL",
               "NULL_LITERAL", "LBRACE", "LBRACKET"}

ValueEnd == {"STRING", "NUMBER", "TRUE_LITERAL", "FALSE_LITERAL",
             "NULL_LITERAL", "RBRACE", "RBRACKET"}

\* the first key of an object is not followed by a colon
MissingColon(toks) ==
    \E i \in 2..(Len(toks) - 1) :
        /\ toks[i - 1].tokenType = "LBRACE"
        /\ toks[i].tokenType = "STRING"
        /\ toks[i + 1].tokenType # "COLON"

\* a colon is not followed by a value
MissingValue(toks) ==
    \E i \in 1..(Len(toks) - 1) :
        /\ toks[i].tokenType = "COLON"
        /\ toks[i + 1].tokenType \notin ValueStart

\* C3: input that ends before its containers are closed, or lacks a colon or a
\* value, fails with a ParseError and gives no tree
C3_MalformedRejected ==
    (pc # "start"
     /\ (Unclosed(tokens) \/ MissingColon(tokens) \/ MissingValue(tokens))) =>
        (pc = "failed" /\ error = "ParseError")

\* inside a container a value ends and the next token starts a value, with no
\* comma between them
MissingSeparator(toks) ==
    \E i \in 1..(Len(toks) - 1) :
        /\ Depth(toks, i) > 0
        /\ toks[i].tokenType \in ValueEnd \ {"STRING"}
        /\ toks[i + 1].tokenType \in ValueStart

\* C4: a complete entry or value followed by a token that is neither a comma
\* nor the close token fails with a ParseError
C4_SeparatorEnforced ==
    (pc # "start" /\ MissingSeparator(tokens)) =>
        (pc = "failed" /\ error = "ParseError")

\* a comma immediately followed by the array close token
TrailingComma(toks) ==
    \E i \in 1..(Len(toks) - 1) :
        /\ toks[i].tokenType = "COMMA"
        /\ toks[i + 1].tokenType = "RBRACKET"

\* C5: a comma immediately followed by the array close token fails with a
\* ParseError
C5_TrailingCommaRejected ==
    (pc # "start" /\ TrailingComma(tokens)) =>
        (pc = "failed" /\ error = "ParseError")

(***************************************************************************)
(* Building and editing a tree through the Element interface.  A call is   *)
(* made on the held Element or on a reference to one of its members.       *)
(***************************************************************************)
MaxSize == 3

\* the values the caller passes to From, Add and operator<< while editing
HostValues == {HostValue("int", 1, <<>>, FALSE), HostValue("string", 0, <<"b">>, FALSE)}

HostKeys == {<<"a">>, <<"b">>}

\* the texts handed to Parse while editing
HostTexts ==
    {Join(<<LBracketLexeme, <<"t", "r", "u", "e">>, CommaLexeme,
            <<"n", "u", "l", "l">>, RBracketLexeme>>),
     Join(<<LBraceLexeme, <<QUOTE, "a", QUOTE>>, ColonLexeme, <<"1">>,
            RBraceLexeme>>)}

RECURSIVE Size(_)
\* the number of Elements of a tree
Size(e) ==
    LET SumObj[i \in 0..Len(e.obj)] ==
            IF i = 0 THEN 0 ELSE SumObj[i - 1] + Size(e.obj[i].element)
        SumArr[i \in 0..Len(e.arr)] ==
            IF i = 0 THEN 0 ELSE SumArr[i - 1] + Size(e.arr[i])
    IN  1 + SumObj[Len(e.obj)] + SumArr[Len(e.arr)]

\* the references the caller can hold: e, e[key], e[index]
Targets(e) ==
    {RootTarget} \cup {MemberTarget(k) : k \in Keys(e.obj)}
                 \cup {ItemTarget(i) : i \in 0..(Len(e.arr) - 1)}

\* the Element a reference designates
Sub(e, t) ==
    CASE t.kind = "root" -> e
      [] t.kind = "member" -> Lookup(e.obj, t.key)
      [] t.kind = "item" -> e.arr[t.at + 1]

\* the tree after the Element a reference designates has become new
Replace(e, t, new) ==
    CASE t.kind = "root" -> new
      [] t.kind = "member" -> [e EXCEPT !.obj = Assign(@, t.key, new)]
      [] t.kind = "item" -> [e EXCEPT !.arr[t.at + 1] = new]

\* operator[](size_t) past the end: the build hands back a reference to whatever
\* follows the buffer, or the access takes the process down
IndexOutcomes(r) ==
    IF r.threw = "UB" THEN {Returned(r.element, "reference"), Threw(r.element, "crash")}
    ELSE {r}

\* erase(begin() + at) past the end: nothing visible happens, the last element
\* is destroyed, or the process goes down
EraseOutcomes(r) ==
    IF r.threw = "UB"
    THEN {Returned(r.element, "true"), Threw(r.element, "crash")}
         \cup (IF Len(r.element.arr) > 0
               THEN {Returned([r.element EXCEPT
                                  !.arr = SubSeq(@, 1, Len(@) - 1)], "true")}
               ELSE {})
    ELSE {r}

\* one call on the reference t with outcome r
Call(op, t, key, at, type, r) ==
    /\ pc = "held"
    /\ \E x \in {r} :
          \E new \in {Replace(element, t, x.element)} :
             /\ Size(new) <= MaxSize
             /\ element' = new
             /\ last' = [key |-> key, ret |-> x.ret, threw |-> x.threw,
                         out |-> x.out, type |-> type, at |-> at,
                         op |-> op, target |-> t,
                         len |-> Len(Sub(element, t).obj) + Len(Sub(element, t).arr)]
    /\ UNCHANGED <<source, lexer, tokens, curser, pc, error, text, copy>>

InitElement ==
    /\ source = <<>>
    /\ lexer = [curser |-> 0, tokens |-> <<>>]
    /\ tokens = <<>>
    /\ curser = 0
    /\ element = ElementOf("NULL_LITERAL")
    /\ pc = "held"
    /\ error = "none"
    /\ text = <<>>
    /\ copy = NoCopy
    /\ last = NoOperation

\* t = Element::From(v)
CallFrom ==
    \E t \in Targets(element), v \in HostValues :
        Call("From", t, <<>>, 0, "none", Returned(From(v), "none"))

\* t = Element::From<JObject>(), t = Element::From<JArray>()
CallFromDefault ==
    \E t \in Targets(element), V \in {"JObject", "JArray"} :
        Call("From", t, <<>>, 0, "none", Returned(FromDefault(V), "none"))

\* held = JSONParser().Parse(text)
CallParse ==
    \E x \in HostTexts :
        \E r \in {JSONParser_Parse(x, <<>>, 0)} :
            /\ r.status = "ok"
            /\ Call("Parse", RootTarget, <<>>, 0, "none", Returned(r.element, "none"))

CallAddKey ==
    \E t \in Targets(element), key \in HostKeys, v \in HostValues :
        Call("Add(key)", t, key, 0, v.type, Add_key(Sub(element, t), key, v))

CallAdd ==
    \E t \in Targets(element), v \in HostValues :
        Call("Add", t, <<>>, 0, v.type, Add(Sub(element, t), v))

CallShl ==
    \E t \in Targets(element), v \in HostValues :
        Call("operator<<", t, <<>>, 0, v.type, operator_shl(Sub(element, t), v))

CallIndexKey ==
    \E t \in Targets(element), key \in HostKeys :
        Call("operator[](key)", t, key, 0, "none",
             operator_index_key(Sub(element, t), key))

CallIndex ==
    \E t \in Targets(element), at \in 0..(MaxSize - 1) :
        \E r \in IndexOutcomes(operator_index(Sub(element, t), at)) :
            Call("operator[](index)", t, <<>>, at, "none", r)

CallAssign ==
    \E t \in Targets(element), j \in JsonifyKinds :
        Call("operator=", t, <<>>, 0, j, operator_assign(Sub(element, t), j))

CallAddObjectKey ==
    \E t \in Targets(element), key \in HostKeys, j \in JsonifyKinds,
       skipJsonifyObj \in BOOLEAN :
        Call("AddObject(key)", t, key, 0, "none",
             AddObject_key(Sub(element, t), key, j, skipJsonifyObj))

CallAddObject ==
    \E t \in Targets(element), j \in JsonifyKinds :
        Call("AddObject", t, <<>>, 0, "none", AddObject(Sub(element, t), j))

CallRemoveKey ==
    \E t \in Targets(element), key \in HostKeys :
        Call("Remove(key)", t, key, 0, "none", Remove_key(Sub(element, t), key))

CallRemoveAt ==
    \E t \in Targets(element), at \in 0..(MaxSize - 1) :
        \E r \in EraseOutcomes(Remove_at(Sub(element, t), at)) :
            Call("Remove(index)", t, <<>>, at, "none", r)

CallRemove ==
    \E t \in Targets(element) :
        Call("Remove", t, <<>>, 0, "none", Remove(Sub(element, t)))

NextElement ==
    \/ CallFrom
    \/ CallFromDefault
    \/ CallParse
    \/ CallAddKey
    \/ CallAdd
    \/ CallShl
    \/ CallIndexKey
    \/ CallIndex
    \/ CallAssign
    \/ CallAddObjectKey
    \/ CallAddObject
    \/ CallRemoveKey
    \/ CallRemoveAt
    \/ CallRemove

SpecElement == InitElement /\ [][NextElement]_vars

(***************************************************************************)
(* Reading a held Element through the typed accessors.                     *)
(***************************************************************************)
\* the values the held Element is built from
AccessValues ==
    HostValues \cup {HostValue("double", Micro, <<>>, FALSE),
                     HostValue("bool", 0, <<>>, TRUE),
                     HostValue("nullptr_t", 0, <<>>, FALSE)}

\* held = Element::From(v)
HoldFrom ==
    \E v \in AccessValues :
        Call("From", RootTarget, <<>>, 0, "none", Returned(From(v), "none"))

CallGetValueAs ==
    \E t \in Targets(element), T \in Types :
        Call("GetValueAs", t, <<>>, 0, T, GetValueAs(Sub(element, t), T))

CallTryGetValueAs ==
    \E t \in Targets(element), T \in Types :
        Call("TryGetValueAs", t, <<>>, 0, T, TryGetValueAs(Sub(element, t), T))

CallShr ==
    \E t \in Targets(element), T \in Types :
        Call("operator>>", t, <<>>, 0, T, operator_shr(Sub(element, t), T))

NextAccess ==
    \/ HoldFrom
    \/ CallFromDefault
    \/ CallParse
    \/ CallGetValueAs
    \/ CallTryGetValueAs
    \/ CallShr

SpecAccess == InitElement /\ [][NextAccess]_vars

(***************************************************************************)
(* Properties of the Element interface                                     *)
(***************************************************************************)
RECURSIVE Nodes(_)
\* every Element reachable in a tree
Nodes(e) ==
    {e} \cup UNION {Nodes(e.obj[i].element) : i \in 1..Len(e.obj)}
        \cup UNION {Nodes(e.arr[i]) : i \in 1..Len(e.arr)}

\* the host type a tag designates
Designated(tag) ==
    CASE tag = "STRING_LITERAL" -> "string"
      [] tag = "NUMBER_LITERAL" -> "double"
      [] tag = "BOOL_LITERAL" -> "bool"
      [] tag = "NULL_LITERAL" -> "nullptr_t"
      [] tag = "OBJECT" -> "JObject"
      [] tag = "ARRAY" -> "JArray"

\* C6: whatever calls built the tree, every Element in it carries the payload
\* its tag designates (a Null may carry no payload at all), so the typed get
\* for the designated type does not fail with "Wrong type"
C6_TagDesignatesPayload ==
    pc = "held" =>
        \A n \in Nodes(element) :
            /\ n.valueType # "INVALID"
            /\ \/ n.value = Designated(n.valueType)
               \/ n.valueType = "NULL_LITERAL" /\ n.value = "nullptr"
            /\ n.valueType # "NULL_LITERAL" =>
                  GetValueAs(n, Designated(n.valueType)).threw # "WrongType"

\* C7: asking an Element for a type of another tag throws from GetValueAs and
\* makes TryGetValueAs and operator>> return false, with a null out pointer
\* and an untouched result; asking for a type of its own tag makes the two
\* probing forms return true and hand out the payload
C7_TypeAccessContract ==
    last.op \in {"GetValueAs", "TryGetValueAs", "operator>>"} =>
        IF Sub(element, last.target).valueType # ValueType_of(last.type)
        THEN CASE last.op = "GetValueAs" -> last.threw # "none"
               [] last.op = "TryGetValueAs" ->
                    last.threw = "none" /\ last.ret = "false" /\ last.out = "nullptr"
               [] last.op = "operator>>" ->
                    last.threw = "none" /\ last.ret = "false"
                    /\ last.out = "unmodified"
        ELSE last.op # "GetValueAs" =>
                last.threw = "none" /\ last.ret = "true" /\ last.out = "payload"

\* one step of operator[](key) on the reference last'.target
KeyAccessStep ==
    last'.op = "operator[](key)" =>
        LET t == last'.target
            key == last'.key
            before == Sub(element, t)
            after == Sub(element', t)
        IN  IF before.valueType # "OBJECT"
            THEN last'.threw = "TypeError" /\ element' = element
            ELSE /\ last'.threw = "none"
                 /\ IF HasKey(before.obj, key)
                    THEN element' = element
                    ELSE /\ element' = Replace(element, t, after)
                         /\ after = [before EXCEPT !.obj = after.obj]
                         /\ Len(after.obj) = Len(before.obj) + 1
                         /\ Keys(after.obj) = Keys(before.obj) \cup {key}
                         /\ Lookup(after.obj, key).valueType = "NULL_LITERAL"
                         /\ \A k \in Keys(before.obj) :
                               Lookup(after.obj, k) = Lookup(before.obj, k)

\* C8: e[key] on an Object without key adds the one entry key -> Null and
\* leaves the other entries as they were; with key present it changes nothing;
\* on any other tag it fails with a TypeError and changes nothing
C8_AutoVivification == [][KeyAccessStep]_vars

\* e[key] has just created an entry next to the ones the Object already had
C8_Vivified ==
    /\ last.op = "operator[](key)"
    /\ last.threw = "none"
    /\ last.len >= 1
    /\ Len(Sub(element, last.target).obj) = last.len + 1
    /\ Lookup(Sub(element, last.target).obj, last.key).valueType = "NULL_LITERAL"

\* C9: Remove(key) on an Element that is no Object and Remove(index) on an
\* Element that is no Array return false and do not throw
C9_RemoveWrongTagReturnsFalse ==
    (\/ last.op = "Remove(key)" /\ Sub(element, last.target).valueType # "OBJECT"
     \/ last.op = "Remove(index)" /\ Sub(element, last.target).valueType # "ARRAY")
        => (last.threw = "none" /\ last.ret = "false")

\* C10: e[i] with i at or past the length of an Array fails with an error; on
\* an Element of any other tag it fails with a TypeError
C10_IndexOutOfRangeFails ==
    last.op = "operator[](index)" =>
        IF Sub(element, last.target).valueType = "ARRAY"
        THEN last.at >= Len(Sub(element, last.target).arr) =>
                last.threw \notin {"none", "crash"}
        ELSE last.threw = "TypeError"

NumericTypes == {"double", "int", "long", "float"}

\* C11: on a Number-tagged Element the typed get succeeds for each of int,
\* long, float and double, whatever numeric type the Element was built from:
\* GetValueAs returns, TryGetValueAs and operator>> return true
C11_NumericUniformity ==
    (/\ last.op \in {"GetValueAs", "TryGetValueAs", "operator>>"}
     /\ last.type \in NumericTypes
     /\ Sub(element, last.target).valueType = "NUMBER_LITERAL")
        => /\ last.threw = "none"
           /\ last.op # "GetValueAs" => last.ret = "true"

(***************************************************************************)
(* Further properties of the parser and the serializers, under Spec        *)
(***************************************************************************)
\* the number of places where the characters open, close stand side by side
Adjacent(t, open, close) ==
    Cardinality({i \in 1..(Len(t) - 1) : t[i] = open /\ t[i + 1] = close})

RECURSIVE Empties(_, _)
\* the number of Elements of a tree that are containers of tag with no member
Empties(e, tag) ==
    LET SumObj[i \in 0..Len(e.obj)] ==
            IF i = 0 THEN 0 ELSE SumObj[i - 1] + Empties(e.obj[i].element, tag)
        SumArr[i \in 0..Len(e.arr)] ==
            IF i = 0 THEN 0 ELSE SumArr[i - 1] + Empties(e.arr[i], tag)
    IN  (IF e.valueType = tag /\ Len(e.obj) = 0 /\ Len(e.arr) = 0 THEN 1 ELSE 0)
        + SumObj[Len(e.obj)] + SumArr[Len(e.arr)]

\* C12: `{}` parses to an Object with no entry and `[]` to an Array with no
\* element, and every empty Object or Array of a tree, at any depth, is written
\* as {} or [] by ToString() and by ToString(n)
C12_EmptyContainers ==
    /\ (pc # "start" /\ source = Join(<<LBraceLexeme, RBraceLexeme>>)) =>
          (pc # "failed" /\ element.valueType = "OBJECT" /\ Len(element.obj) = 0)
    /\ (pc # "start" /\ source = Join(<<LBracketLexeme, RBracketLexeme>>)) =>
          (pc # "failed" /\ element.valueType = "ARRAY" /\ Len(element.arr) = 0)
    /\ (pc \in {"printed", "formatted"} /\ ValidSource) =>
          /\ Adjacent(text, "{", "}") = Empties(element, "OBJECT")
          /\ Adjacent(text, "[", "]") = Empties(element, "ARRAY")

\* C13: the compact text of a tree parsed from valid input parses again, and
\* the compact text of what it parses to is the same text
C13_IdempotentSerialization ==
    (pc = "reparsed" /\ ValidSource) =>
        /\ copy.status = "ok"
        /\ \E order \in IterationOrders : ToString(copy.element, order) = text

\* C14: a text whose first token is neither { nor [ fails with a ParseError and
\* gives no tree; a tree parsed from a text that starts with { is an Object,
\* from one that starts with [ an Array
C14_DocumentStart ==
    (pc # "start" /\ Len(tokens) > 0) =>
        /\ tokens[1].tokenType \notin {"LBRACE", "LBRACKET"} =>
              (pc = "failed" /\ error = "ParseError"
               /\ element = ElementOf("NULL_LITERAL"))
        /\ (tokens[1].tokenType = "LBRACE" /\ pc # "failed") =>
              element.valueType = "OBJECT"
        /\ (tokens[1].tokenType = "LBRACKET" /\ pc # "failed") =>
              element.valueType = "ARRAY"

\* a scalar on its own was handed to Parse and refused
C14_ScalarRootRefused ==
    /\ pc = "failed"
    /\ error = "ParseError"
    /\ Len(tokens) = 2
    /\ tokens[1].tokenType = "NUMBER"
    /\ tokens[2].tokenType = "END_OF_FILE"

(***************************************************************************)
(* Further properties of the Element interface, under SpecElement          *)
(***************************************************************************)
\* the value of host type T the caller passes
HostValueOf(T) == CHOOSE v \in HostValues : v.type = T

\* one step of Add(key, v) or Add(v) on the reference last'.target
AddStep ==
    last'.op \in {"Add(key)", "Add"} =>
        LET t == last'.target
            key == last'.key
            v == From(HostValueOf(last'.type))
            before == Sub(element, t)
            after == Sub(element', t)
        IN  /\ last'.threw = "none"
            /\ element' = Replace(element, t, after)
            /\ IF last'.op = "Add(key)" /\ before.valueType = "OBJECT"
               THEN /\ last'.ret = "true"
                    /\ after = [before EXCEPT !.obj = after.obj]
                    /\ Keys(after.obj) = Keys(before.obj) \cup {key}
                    /\ Len(after.obj) = Cardinality(Keys(after.obj))
                    /\ Lookup(after.obj, key) = v
                    /\ \A k \in Keys(before.obj) \ {key} :
                          Lookup(after.obj, k) = Lookup(before.obj, k)
               ELSE IF last'.op = "Add" /\ before.valueType = "ARRAY"
               THEN /\ last'.ret = "true"
                    /\ after = [before EXCEPT !.arr = after.arr]
                    /\ after.arr = Append(before.arr, v)
               ELSE last'.ret = "false" /\ element' = element

\* C15: Add(key, v) on an Object returns true and leaves key mapped to v, the
\* other entries as they were; Add(v) on an Array returns true and appends v
\* behind the elements it had; on any other tag both return false, throw
\* nothing and change nothing
C15_Add == [][AddStep]_vars

\* Add(key, v) has just overwritten the entry of a key the Object already had
C15_Overwritten ==
    /\ last.op = "Add(key)"
    /\ last.ret = "true"
    /\ last.len >= 1
    /\ Len(Sub(element, last.target).obj) = last.len
    /\ Lookup(Sub(element, last.target).obj, last.key) = From(HostValueOf(last.type))

\* one step of Remove(key) on an Object or of Remove(index) inside an Array
RemoveStep ==
    LET t == last'.target
        key == last'.key
        at == last'.at
        before == Sub(element, t)
        after == Sub(element', t)
    IN  /\ (last'.op = "Remove(key)" /\ before.valueType = "OBJECT") =>
              /\ last'.threw = "none"
              /\ last'.ret = (IF HasKey(before.obj, key) THEN "true" ELSE "false")
              /\ element' = Replace(element, t, after)
              /\ after = [before EXCEPT !.obj = after.obj]
              /\ Keys(after.obj) = Keys(before.obj) \ {key}
              /\ Len(after.obj) = Cardinality(Keys(after.obj))
              /\ \A k \in Keys(after.obj) :
                    Lookup(after.obj, k) = Lookup(before.obj, k)
        /\ (last'.op = "Remove(index)" /\ before.valueType = "ARRAY"
            /\ at < Len(before.arr)) =>
              /\ last'.threw = "none"
              /\ element' = Replace(element, t, after)
              /\ after = [before EXCEPT !.arr = after.arr]
              /\ Len(after.arr) = Len(before.arr) - 1
              /\ \A i \in 1..Len(after.arr) :
                    after.arr[i] = before.arr[IF i <= at THEN i ELSE i + 1]

ResetStep ==
    last'.op = "Remove" =>
        LET t == last'.target
            after == Sub(element', t)
        IN  /\ last'.threw = "none"
            /\ after.valueType = "NULL_LITERAL"
            /\ Len(after.obj) = 0
            /\ Len(after.arr) = 0
            /\ \A order \in IterationOrders :
                  /\ ToString(after, order) = <<"n", "u", "l", "l">>
                  /\ \A indent \in 1..MaxIndent :
                        ToString_indent(after, indent, order) = <<"n", "u", "l", "l">>
            /\ element' = Replace(element, t, after)
            /\ t.kind = "member" =>
                  /\ [i \in 1..Len(element'.obj) |-> element'.obj[i].key]
                        = [i \in 1..Len(element.obj) |-> element.obj[i].key]
                  /\ \A k \in Keys(element.obj) \ {t.key} :
                        Lookup(element'.obj, k) = Lookup(element.obj, k)
            /\ t.kind = "item" =>
                  /\ Len(element'.arr) = Len(element.arr)
                  /\ \A i \in 1..Len(element.arr) :
                        i # t.at + 1 => element'.arr[i] = element.arr[i]

\* C17: Remove() turns the Element it is called on into a Null that is written
\* as null and has no children; a parent Object or Array keeps it under the
\* same key or position and keeps its other members as they were
C17_RemoveResetsInPlace == [][ResetStep]_vars

\* Remove() has just been called on a member that had children of its own
C17_MemberReset ==
    /\ last.op = "Remove"
    /\ last.target.kind # "root"
    /\ last.len >= 1
    /\ Sub(element, last.target).valueType = "NULL_LITERAL"

\* one step of operator=(Jsonify&) on the reference last'.target
AssignStep ==
    last'.op = "operator=" =>
        LET t == last'.target
            after == Sub(element', t)
        IN  CASE last'.type = "OnlyToObject" ->
                   /\ last'.threw = "none"
                   /\ element' = Replace(element, t, after)
                   /\ after.valueType = "OBJECT"
                   /\ after.value = "JObject"
                   /\ Keys(after.obj) = {<<"a">>}
                   /\ Len(after.obj) = 1
                   /\ Lookup(after.obj, <<"a">>) = From(HostInt)
              [] last'.type = "OnlyToArray" ->
                   /\ last'.threw = "none"
                   /\ element' = Replace(element, t, after)
                   /\ after.valueType = "ARRAY"
                   /\ after.value = "JArray"
                   /\ after.arr = <<From(HostInt)>>
              [] last'.type = "Jsonify" ->
                   /\ last'.threw = "UsageError"
                   /\ element' = element
              [] OTHER -> TRUE

\* C18: assigning a Jsonify value that overrides only ToJsonObject makes the
\* Element the Object that method builds, one that overrides only ToJsonArray
\* the Array that method builds, and one that overrides neither fails with a
\* usage error and leaves the Element as it was
C18_CapabilityAssignment == [][AssignStep]_vars

\* a value that overrides neither method was assigned to an Element that held
\* a container, and was refused
C18_NeitherRefused ==
    /\ last.op = "operator="
    /\ last.type = "Jsonify"
    /\ last.threw = "UsageError"
    /\ Sub(element, last.target).valueType \in {"OBJECT", "ARRAY"}

\* C19: assigning a Jsonify value that overrides both ToJsonObject and
\* ToJsonArray is refused with an error
C19_BothCapabilitiesRefused ==
    (last.op = "operator=" /\ last.type = "JustSomeStruct") => last.threw # "none"

(***************************************************************************)
(* Properties of the indented serializer, under Spec                       *)
(***************************************************************************)
\* { "a" : { "b" : 1 } }
NestedDocument ==
    Join(<<LBraceLexeme, <<QUOTE, "a", QUOTE>>, ColonLexeme,
           LBraceLexeme, <<QUOTE, "b", QUOTE>>, ColonLexeme, <<"1">>,
           RBraceLexeme, RBraceLexeme>>)

\* the five lines the nested document is to be written as with indent width 2
NestedLines ==
    <<"{", "\n">>
    \o <<" ", " ", QUOTE, "a", QUOTE, ":", " ", "{", "\n">>
    \o <<" ", " ", " ", " ", QUOTE, "b", QUOTE, ":", " ", "1", "\n">>
    \o <<" ", " ", "}", "\n">>
    \o <<"}">>

\* position i of t starts a line
LineStart(t, i) == i = 1 \/ t[i - 1] = "\n"

\* the number of spaces a line starts with
RECURSIVE Lead(_, _)
Lead(t, i) == IF i <= Len(t) /\ t[i] = " " THEN 1 + Lead(t, i + 1) ELSE 0

\* containers opened and not yet closed before position i of t
OpenAt(t, i) ==
    Cardinality({j \in 1..(i - 1) : t[j] \in {"{", "["}})
        - Cardinality({j \in 1..(i - 1) : t[j] \in {"}", "]"}})

\* every line is indented by width for each container open around it, a line
\* that closes a container as deep as the line that opened it
Aligned(t, width) ==
    \A i \in 1..Len(t) :
        LineStart(t, i) =>
            Lead(t, i) =
                width * (IF i + Lead(t, i) <= Len(t)
                            /\ t[i + Lead(t, i)] \in {"}", "]"}
                         THEN OpenAt(t, i) - 1
                         ELSE OpenAt(t, i))

\* C20: { "a" : { "b" : 1 } } written by ToString(2) is the five lines {,
\* "a": { indented by 2, "b": 1 indented by 4, } indented by 2, and }, with no
\* newline at the end; in every indented text the entries of each nesting
\* level are indented by one more width and a closing bracket stands at the
\* indentation of its container
C20_IndentedNesting ==
    pc = "formatted" =>
        /\ (source = NestedDocument /\ last.at = 2) => text = NestedLines
        /\ ValidSource => Aligned(text, last.at)

(***************************************************************************)
(* Lexing text character by character.  The texts handed to Parse hold one *)
(* number, string or keyword candidate, on its own or inside [ ], at the   *)
(* start of the text or behind six blanks.                                 *)
(***************************************************************************)
MaxChars == 4

\* the sequences of at most n characters out of chars
RECURSIVE Strings(_, _)
Strings(chars, n) ==
    IF n = 0 THEN {<<>>}
    ELSE {<<>>} \cup {<<c>> \o s : c \in chars, s \in Strings(chars, n - 1)}

NumberChars == {"1", "-", "+", ".", "e", "E"}

\* the model counts a double in millionths: texts with five digits in a row or
\* with two digits in the exponent are left out
OutOfRange(s) ==
    \/ \E i \in 1..(Len(s) - 4) : \A j \in i..(i + 4) : isdigit(s[j])
    \/ \E i \in 1..(Len(s) - 2) :
          /\ s[i] \in {"e", "E"}
          /\ \/ isdigit(s[i + 1]) /\ isdigit(s[i + 2])
             \/ /\ s[i + 1] \in {"-", "+"}
                /\ i + 3 <= Len(s)
                /\ isdigit(s[i + 2])
                /\ isdigit(s[i + 3])

NumberTexts == {s \in Strings(NumberChars, MaxChars) \ {<<>>} : ~OutOfRange(s)}

StringTexts == {<<QUOTE>> \o s : s \in Strings({QUOTE, BACKSLASH, "a"}, MaxChars)}

\* the spellings of a word, each letter in lower or upper case
Spellings(lower, upper) ==
    {s \in [1..Len(lower) -> {lower[i] : i \in 1..Len(lower)}
                             \cup {upper[i] : i \in 1..Len(upper)}] :
        \A i \in 1..Len(lower) : s[i] \in {lower[i], upper[i]}}

TrueSpellings == Spellings(<<"t", "r", "u", "e">>, <<"T", "R", "U", "E">>)
FalseSpellings ==
    Spellings(<<"f", "a", "l", "s", "e">>, <<"F", "A", "L", "S", "E">>)
NullSpellings == Spellings(<<"n", "u", "l", "l">>, <<"N", "U", "L", "L">>)

KeywordTexts == TrueSpellings \cup FalseSpellings \cup NullSpellings

\* a keyword cut short, or with one letter behind the first replaced
Misspellings(word) ==
    {SubSeq(word, 1, i) : i \in 1..(Len(word) - 1)}
    \cup {[word EXCEPT ![i] = "x"] : i \in 2..Len(word)}

MisspeltTexts ==
    UNION {Misspellings(w) : w \in {<<"t", "r", "u", "e">>, <<"T", "R", "U", "E">>,
                                     <<"f", "a", "l", "s", "e">>,
                                     <<"n", "u", "l", "l">>, <<"N", "u", "L", "l">>}}
    \cup {<<"t", "u", "r", "e">>}

Pads == {<<>>, <<" ", " ", " ", " ", " ", " ">>}

LexTexts ==
    {pad \o b : pad \in Pads,
                b \in NumberTexts \cup StringTexts \cup KeywordTexts
                          \cup MisspeltTexts}
    \cup {pad \o <<"[">> \o b \o <<"]">> :
             pad \in Pads,
             b \in NumberTexts \cup StringTexts \cup KeywordTexts
                       \cup MisspeltTexts}

\* Parse on the parser instance of the state, the file holding the text file
ParseFile(file) ==
    /\ \E r \in {JSONParser_Parse(file, lexer.tokens, lexer.curser)} :
          /\ source' = file
          /\ lexer' = [curser |-> r.lexer.curser, tokens |-> r.lexer.tokens]
          /\ tokens' = (IF r.lexer.status = "ok" THEN r.tokens ELSE tokens)
          /\ curser' = r.curser
          /\ \E o \in ParseOutcomes(r.status) : error' = o
          /\ element' = (IF r.status = "ok" THEN r.element ELSE element)
          /\ pc' = (IF r.status = "ok" THEN "parsed" ELSE "failed")
    /\ UNCHANGED <<text, copy, last>>

\* JSONParser{file}.Parse() on a fresh parser
ParseLexText ==
    /\ pc = "start"
    /\ \E file \in LexTexts : ParseFile(file)

SpecLexer == Init /\ [][ParseLexText]_vars

(***************************************************************************)
(* Properties of the lexer, under SpecLexer                                *)
(***************************************************************************)
\* index of the first character of s at or after i that is no decimal digit
RECURSIVE AfterDigits(_, _)
AfterDigits(s, i) ==
    IF i <= Len(s) /\ s[i] \in {"0", "1", "2", "3", "4", "5", "6", "7", "8", "9"}
    THEN AfterDigits(s, i + 1)
    ELSE i

\* s is -? digits (. digits)? ((e|E) digits)?
NumberGrammar(s) ==
    LET i0 == IF Len(s) >= 1 /\ s[1] = "-" THEN 2 ELSE 1
        i1 == AfterDigits(s, i0)
        f1 == IF i1 <= Len(s) /\ s[i1] = "." THEN AfterDigits(s, i1 + 1) ELSE i1
        e1 == IF f1 <= Len(s) /\ s[f1] \in {"e", "E"}
              THEN AfterDigits(s, f1 + 1)
              ELSE f1
    IN  /\ i1 > i0
        /\ (i1 <= Len(s) /\ s[i1] = ".") => f1 > i1 + 1
        /\ (f1 <= Len(s) /\ s[f1] \in {"e", "E"}) => e1 > f1 + 1
        /\ e1 = Len(s) + 1

\* C21: the text of every NUMBER token is an optional -, digits, an optional
\* . with digits and an optional e or E with digits; a - stands nowhere but in
\* front, and a text without a digit is no NUMBER token
C21_NumberGrammar ==
    \A i \in 1..Len(lexer.tokens) :
        lexer.tokens[i].tokenType = "NUMBER" =>
            NumberGrammar(lexer.tokens[i].lexeme)

\* C22: no NUMBER token holds an exponent marker followed by a sign; e or E is
\* part of a NUMBER token only with a decimal digit right behind it
C22_ExponentSignRefused ==
    \A i \in 1..Len(lexer.tokens) :
        lexer.tokens[i].tokenType = "NUMBER" =>
            LET s == lexer.tokens[i].lexeme
            IN  \A j \in 1..Len(s) :
                    s[j] \in {"e", "E"} => (j < Len(s) /\ isdigit(s[j + 1]))

\* the text b inside [ ], behind the blanks pad
Wrapped(pad, b) == pad \o <<"[">> \o b \o <<"]">>

\* the source holds the keyword candidate b, on its own or inside [ ]
Holds(b) == \E pad \in Pads : source \in {pad \o b, Wrapped(pad, b)}

\* C23: every spelling of true, false and null in upper and lower case letters
\* gives the TRUE, FALSE or NULL token and parses to Bool true, Bool false or
\* Null; a text that starts like a keyword and departs from its letters, or
\* ends before the keyword does, fails with a LexError
C23_KeywordLiterals ==
    pc # "start" =>
        /\ \A b \in KeywordTexts, pad \in Pads :
              source = Wrapped(pad, b) =>
                  /\ error = "none"
                  /\ Len(tokens) = 4
                  /\ tokens[2].tokenType =
                        (IF b \in TrueSpellings THEN "TRUE_LITERAL"
                         ELSE IF b \in FalseSpellings THEN "FALSE_LITERAL"
                         ELSE "NULL_LITERAL")
                  /\ Len(element.arr) = 1
                  /\ element.arr[1].valueType =
                        (IF b \in NullSpellings THEN "NULL_LITERAL" ELSE "BOOL_LITERAL")
                  /\ b \in TrueSpellings => element.arr[1].b
                  /\ b \in FalseSpellings => ~element.arr[1].b
        /\ \A b \in MisspeltTexts :
              Holds(b) => (pc = "failed" /\ error = "LexError")

\* index of the first quote of s behind position i that has no backslash right
\* in front of it, 0 when there is none
ClosingQuote(s, i) ==
    IF \E j \in (i + 1)..Len(s) : s[j] = QUOTE /\ s[j - 1] # BACKSLASH
    THEN CHOOSE j \in (i + 1)..Len(s) :
            /\ s[j] = QUOTE /\ s[j - 1] # BACKSLASH
            /\ \A k \in (i + 1)..(j - 1) : ~(s[k] = QUOTE /\ s[k - 1] # BACKSLASH)
    ELSE 0

\* index of the first quote of s, 0 when there is none
OpeningQuote(s) ==
    IF \E j \in 1..Len(s) : s[j] = QUOTE
    THEN CHOOSE j \in 1..Len(s) : s[j] = QUOTE /\ \A k \in 1..(j - 1) : s[k] # QUOTE
    ELSE 0

\* C24: a string token runs from its opening quote to the first quote behind
\* it that has no backslash right in front, its value is the text between the
\* two as written; without such a quote lexing fails with a LexError and no
\* tokens are returned
C24_StringLexing ==
    (pc # "start" /\ OpeningQuote(source) > 0) =>
        LET open == OpeningQuote(source)
            close == ClosingQuote(source, open)
            \* the tokens in front of the string: [ when the text is wrapped
            at == IF open > 1 /\ source[open - 1] = "[" THEN 2 ELSE 1
        IN  IF close > 0
            THEN /\ Len(lexer.tokens) >= at
                 /\ lexer.tokens[at].tokenType = "STRING"
                 /\ lexer.tokens[at].lexeme = SubSeq(source, open, close)
                 /\ lexer.tokens[at].literal_data.str
                       = SubSeq(source, open + 1, close - 1)
            ELSE /\ pc = "failed"
                 /\ error = "LexError"
                 /\ tokens = <<>>

\* C25: a lexical failure, wherever in the text it happens, is a LexError that
\* carries the text around the place; building that text raises no error of
\* another kind
C25_LexErrorWithSnippet ==
    (pc = "failed" /\ error \notin {"ParseError", "crash"}) => error = "LexError"

(***************************************************************************)
(* Properties of the two cursors, under Spec                               *)
(***************************************************************************)
\* a scanToken call at any place of the text leaves the cursor further on
LexerProgress(src) ==
    \A c \in 0..(Len(src) - 1) : scanToken(src, c).curser > c

\* an object or array loop entered at any place of the token buffer leaves the
\* cursor further on
ParserProgress(toks) ==
    \A c \in 1..(Len(toks) - 1) :
        /\ ObjectLoop(toks, c, <<>>).curser > c
        /\ ArrayLoop(toks, c, <<>>).curser > c

\* C26: lexing and parsing a text ends with a tree or with an error; every
\* scanToken call moves the lexer cursor on by at least one character, every
\* turn of the object and array loops takes at least one token, and no cursor
\* moves back
C26_ProgressAndTermination ==
    pc # "start" =>
        /\ error \in {"none", "ParseError", "LexError", "out_of_range"}
        /\ LexerProgress(source)
        /\ ParserProgress(tokens)
        /\ lexer.curser >= 0
        /\ curser >= 0

\* C27: the parser reads no token at or behind the end of the token buffer: the
\* cursor, which counts the tokens read, never exceeds the length of the buffer
C27_CursorInBounds ==
    pc # "start" => curser <= Len(tokens)

\* C29: Parse returns a tree only when it has read every token up to the
\* closing token of the root container and the end-of-input token is the one
\* that follows; a text with anything behind the root container is refused
C29_TrailingTokensRefused ==
    pc \notin {"start", "failed"} =>
        /\ curser = Len(tokens) - 1
        /\ tokens[curser].tokenType \in {"RBRACE", "RBRACKET"}
        /\ tokens[curser + 1].tokenType = "END_OF_FILE"

(***************************************************************************)
(* Several Parse calls on one JSONParser: the file is rewritten between    *)
(* the calls, the parser and its lexer stay.                               *)
(***************************************************************************)
\* the most tokens the lexer holds when a further Parse call is made
MaxBuffer == 8

\* the texts the file holds in turn
SessionTexts ==
    {Join(<<LBracketLexeme, RBracketLexeme>>),
     Join(<<LBracketLexeme, <<"1">>, RBracketLexeme>>),
     Join(<<LBraceLexeme, <<QUOTE, "a", QUOTE>>, ColonLexeme, <<"1">>,
            RBraceLexeme>>),
     Join(<<LBracketLexeme, <<"1">>, CommaLexeme, <<"t", "r", "u", "e">>,
            RBracketLexeme>>),
     Join(<<LBracketLexeme, <<"1">>>>),
     <<"[", " ", " ", " ", " ", " ", "x", "]">>}

\* parser.Parse() once more, on the parser that made the earlier calls
ParseText ==
    /\ pc \in {"start", "parsed", "failed"}
    /\ Len(lexer.tokens) <= MaxBuffer
    /\ \E file \in SessionTexts : ParseFile(file)

SpecSession == Init /\ [][ParseText]_vars

\* C28: a Parse call on a parser that has parsed before lexes the text from its
\* first character into a buffer that holds the tokens of that text and one
\* end-of-input token, and ends as the call of a fresh parser on the text does
C28_NoStateCarriesOver ==
    pc # "start" =>
        LET fresh == JSONParser_Parse(source, <<>>, 0)
        IN  /\ lexer.tokens = fresh.lexer.tokens
            /\ lexer.curser = fresh.lexer.curser
            /\ error \in ParseOutcomes(fresh.status)
            /\ fresh.status = "ok" => (tokens = fresh.tokens /\ element = fresh.element)

(***************************************************************************)
(* Properties of operator<<, under SpecElement                             *)
(***************************************************************************)
\* one step of e << v on the reference last'.target
ShlStep ==
    last'.op = "operator<<" =>
        LET t == last'.target
            v == From(HostValueOf(last'.type))
            before == Sub(element, t)
            after == Sub(element', t)
        IN  /\ last'.threw = "none"
            /\ last'.ret = "reference"
            /\ element' = Replace(element, t, after)
            /\ CASE before.valueType = "ARRAY" ->
                      /\ after = [before EXCEPT !.arr = after.arr]
                      /\ after.arr = Append(before.arr, v)
                 [] before.valueType = "NULL_LITERAL" -> after = v
                 [] OTHER -> after = before

\* C30: e << v appends v behind the elements an Array has, so a chain of <<
\* leaves the earlier elements followed by the values in the order written;
\* it turns a Null into the Element built from v; it changes no Element of
\* another tag; it returns the Element it was called on
C30_StreamInsertion == [][ShlStep]_vars

\* the second << of a chain has just appended behind the value of the first
C30_Chained ==
    /\ last.op = "operator<<"
    /\ last.len = 1
    /\ Sub(element, last.target).valueType = "ARRAY"
    /\ Len(Sub(element, last.target).arr) = 2
    /\ Sub(element, last.target).arr[1].valueType = "NUMBER_LITERAL"
    /\ Sub(element, last.target).arr[2].valueType = "STRING_LITERAL"
====
